---- MODULE Spec2Model ----
(***************************************************************************)
(* Execution worker of the RCE engine: the dispatcher loop (workerLoop,    *)
(* processJob, updateJobStatus, notifyAnalysisWorker) and the executor     *)
(* (DockerProvider.ExecuteCode) of backend/execution-worker/main.go,       *)
(* together with the producer side of the queue (POST /submit of the API   *)
(* gateway).  The container runtime, the record store, the queue and the   *)
(* clock are the environment: every call the code makes to them can        *)
(* succeed or fail, the per-job deadline and the termination signal can    *)
(* arrive between any two steps.                                           *)
(***************************************************************************)
EXTENDS Integers, Sequences, FiniteSets, TLC

\* ---------------------------------------------------------------- bounds
\* payloads pushed onto the queue, by the gateway or by another producer
MaxJobs == 2
\* calls to the queue, the record store, the file system and the container
\* runtime that fail by themselves (not because their context is done)
MaxFaults == 2

JobIds == 1..MaxJobs
\* jobId values a payload can carry: those of the gateway, and 0 for the empty
\* string a payload without a jobId field unmarshals to
JobKeys == 0..MaxJobs

\* ------------------------------------------------------- program constants
\* languageMap (worker registry) and SupportedLanguages (gateway schema)
languageMap == {"python", "javascript"}
SupportedLanguages == {"python", "javascript", "cpp"}
\* languages of the requests sent to /submit: one the worker has registered
\* and one it has not
RequestLanguages == {"python", "cpp", "ruby"}
\* code of the requests sent to /submit, and the programs a container
\* configuration is compared over
RequestCodes == {"print(1)"}
CodeSamples == {"print(1)", "while True: pass"}

TimeoutExitCode == 124
\* seconds: DefaultTimeout of every language, the context of ContainerKill and
\* the context of getContainerLogs
DefaultTimeout == 5
KillTimeout == 5
LogsTimeout == 10
\* exit status of a container ended by SIGKILL
KilledExitCode == 128 + 9
\* exit codes a user program is let to end with in the model
ContainerExitCodes == {0, 1, 124}

TerminalStatuses == {"completed", "failed", "timeout"}

TimeoutOutput == "Execution timed out. Your code took too long to execute."
Unset == "<unset>"
NoCode == -1

\* ------------------------------------------------------------------ state
VARIABLES
    queue,          \* submission_queue: the Redis list, head first
    records,        \* submissions collection, by jobId
    nextJobId,      \* next identifier uuidv4() hands out
    foreign,        \* payloads pushed by producers other than the gateway
    faults,         \* number of calls that failed by themselves so far
    published,      \* messages published on analysis_queue, in order
    ctxCancelled,   \* the root context of main() is cancelled
    pc,             \* position of the worker goroutine
    payload,        \* result[1] of BLPOP, the argument of processJob
    job,            \* the Job processJob unmarshalled
    execCtxErr,     \* execCtx.Err(): "none", "deadline" or "canceled"
    dirs,           \* ExecutionVolume/<jobId>: "absent", "empty", "code"
    containers,     \* container named rce-exec-<jobId>
    defers,         \* deferred calls of ExecuteCode, in registration order
    execStatus,     \* locals of ExecuteCode set by the wait select
    execError,
    exitCode,
    result,         \* the ExecutionResult ExecuteCode returns
    termWrite,      \* the write of result.Status in this call: "none", "ok", "error"
    trace,          \* history: effects of the current processJob call, in order
    deadlineAt,     \* history: step at which the deadline expired
    elapsed,        \* seconds since startTime of ExecuteCode
    cancelAt,       \* history: step of ExecuteCode at which the root context was cancelled
    logs,           \* a log stream and what getContainerLogs returned for it
    dispatchers,    \* worker processes run besides this one on the same queue and volume
    ui              \* the Workspace component of the frontend and its pollers

vars == <<queue, records, nextJobId, foreign, faults, published, ctxCancelled, pc,
          payload, job, execCtxErr, dirs, containers, defers, execStatus,
          execError, exitCode, result, termWrite, trace, deadlineAt,
          elapsed, cancelAt, logs, dispatchers, ui>>

NoRecord == [status |-> "absent", startedAt |-> FALSE, completedAt |-> FALSE,
             output |-> Unset, exitCode |-> NoCode, result |-> Unset,
             error |-> Unset, analysisReport |-> Unset]
NoLogs == [stream |-> <<>>, path |-> "none", output |-> <<>>, err |-> FALSE]
\* Worker processes of a deployment with two of them, and one that is
\* between two jobs.  wroteUnder and removedUnder are history: the process
\* wrote the code file, removed the scratch directory, while a container
\* named after the job existed.
Dispatchers == {1, 2}
NoDispatcher == [pc |-> "blpop", jobId |-> 0, language |-> "", code |-> "",
                 defers |-> <<>>, createFailed |-> FALSE,
                 wroteUnder |-> FALSE, removedUnder |-> FALSE]
\* A poller pollJobStatus has not been called for, the Workspace's state
\* as useState initialises it, and the Workspace when it is mounted.  late
\* and errors are history: a callback was invoked after the cleanup function
\* was called; number of onError calls.
NoPoller == [pc |-> "none", attempts |-> 0, stopped |-> FALSE, errors |-> 0,
             late |-> FALSE]
NoDisplay == [job |-> 0, status |-> "null", output |-> "", error |-> "",
              isSubmitting |-> FALSE, isPolling |-> FALSE,
              isAnalyzing |-> FALSE, analysisReport |-> "null"]
NoUi == [mounted |-> TRUE, submitting |-> FALSE, cleanupRef |-> 0,
         pollers |-> [j \in JobIds |-> NoPoller], display |-> NoDisplay]
NoJob == [jobId |-> 0, language |-> "", code |-> ""]
NoPayload == [valid |-> FALSE, jobId |-> 0, language |-> "", code |-> "",
              copy |-> 0]
NoResult == [status |-> "<none>", output |-> "", exitCode |-> 0, error |-> "",
             executionTime |-> 0]
NoContainer == [state |-> "none", exitCode |-> 0, removeFailed |-> FALSE,
                config |-> <<>>]

\* The state after construction of everything but the log stream.
InitWorker ==
    /\ queue = <<>>
    /\ records = [j \in JobKeys |-> NoRecord]
    /\ nextJobId = 1
    /\ foreign = 0
    /\ faults = 0
    /\ published = <<>>
    /\ ctxCancelled = FALSE
    /\ pc = "loop"
    /\ payload = NoPayload
    /\ job = NoJob
    /\ execCtxErr = "none"
    /\ dirs = [j \in JobKeys |-> "absent"]
    /\ containers = [j \in JobKeys |-> NoContainer]
    /\ defers = <<>>
    /\ execStatus = ""
    /\ execError = ""
    /\ exitCode = 0
    /\ result = NoResult
    /\ termWrite = "none"
    /\ trace = <<>>
    /\ deadlineAt = "never"
    /\ elapsed = 0
    /\ cancelAt = "never"

Init ==
    /\ InitWorker
    /\ logs = NoLogs
    /\ dispatchers = [w \in Dispatchers |-> NoDispatcher]
    /\ ui = NoUi

\* ------------------------------------------------------------ history
Log(e) == Append(trace, e)

\* A call to a collaborator that returns ok or an error.  It cannot succeed
\* when canSucceed is false (its context is done); otherwise a failure is a
\* fault of the environment, of which a behaviour has at most MaxFaults.
Outcome(ok, canSucceed) ==
    /\ ok => canSucceed
    /\ (~ok /\ canSucceed) => faults < MaxFaults
    /\ faults' = IF ~ok /\ canSucceed THEN faults + 1 ELSE faults

\* --------------------------------------------------- API gateway: /submit
\* POST /submit with a body that passes SubmissionRequestSchema: a fresh
\* jobId, the record saved with status queued, then RPUSH of the job.  A save
\* that throws ends the handler before the push; a push that throws leaves
\* the saved record behind.  A body that fails the schema throws at the parse,
\* before the jobId is made: nothing is written and nothing is pushed.
\* A gateway that pushes whether or not the record was saved.
PushAlways(saved) == TRUE

\* submission.save() is awaited before the push: when it throws, the handler
\* goes to the error middleware and RPUSH is not reached.
PushReached(saved) == saved

\* SubmissionRequestSchema.parse on the language of the body.
Validates(lang) == lang \in SupportedLanguages

Submit ==
    /\ nextJobId + foreign <= MaxJobs
    /\ \E lang \in RequestLanguages, code \in RequestCodes,
          saved \in BOOLEAN, pushed \in BOOLEAN :
         IF ~Validates(lang)
         THEN UNCHANGED <<faults, nextJobId, records, queue>>
         ELSE /\ pushed => PushReached(saved)
              /\ Outcome(pushed, TRUE)
              /\ nextJobId' = nextJobId + 1
              /\ records' = IF saved
                            THEN [records EXCEPT ![nextJobId] =
                                     [NoRecord EXCEPT !.status = "queued"]]
                            ELSE records
              /\ queue' = IF pushed
                          THEN Append(queue, [valid |-> TRUE, jobId |-> nextJobId,
                                              language |-> lang, code |-> code,
                                              copy |-> 1])
                          ELSE queue
    /\ UNCHANGED <<foreign, published, ctxCancelled, pc, payload, job,
                   execCtxErr, dirs, containers, defers, execStatus, execError,
                   exitCode, result, termWrite, trace, deadlineAt, elapsed, cancelAt, logs, dispatchers, ui>>

\* --------------------------------------------- API gateway: /status/:jobId
\* The body GET /status/:jobId answers with for the record of job j: 404 when
\* findOne finds nothing, else the fields the handler copies from the record.
StatusResponse(j) ==
    IF records[j].status = "absent"
    THEN [success |-> FALSE, error |-> "Job not found", jobId |-> j]
    ELSE [success |-> TRUE,
          jobId |-> j,
          status |-> records[j].status,
          startedAt |-> records[j].startedAt,
          completedAt |-> records[j].completedAt,
          result |-> records[j].result,
          error |-> records[j].error]

\* Another producer pushes a payload that is not valid JSON.
PushMalformed ==
    /\ nextJobId + foreign <= MaxJobs
    /\ foreign' = foreign + 1
    /\ queue' = Append(queue, NoPayload)
    /\ UNCHANGED <<faults, records, nextJobId, published, ctxCancelled, pc, payload,
                   job, execCtxErr, dirs, containers, defers, execStatus,
                   execError, exitCode, result, termWrite, trace, deadlineAt, elapsed,
                   cancelAt, logs, dispatchers, ui>>

\* A producer other than the gateway pushes a payload that is valid JSON but
\* has no jobId field (language and code are there).
PushIncomplete ==
    /\ nextJobId + foreign <= MaxJobs
    /\ foreign' = foreign + 1
    /\ queue' = Append(queue, [valid |-> TRUE, jobId |-> 0,
                               language |-> "python", code |-> "print(1)",
                               copy |-> 1])
    /\ UNCHANGED <<faults, records, nextJobId, published, ctxCancelled, pc, payload,
                   job, execCtxErr, dirs, containers, defers, execStatus,
                   execError, exitCode, result, termWrite, trace, deadlineAt,
                   elapsed, cancelAt, logs, dispatchers, ui>>

\* The payload of a job is pushed a second time while the first push is still
\* on the queue or being processed (the list does not deduplicate).  The copy
\* number is history (1 for the gateway's push, 2 for a later one): the
\* payloads are the same bytes.
PushDuplicate ==
    /\ nextJobId + foreign <= MaxJobs
    /\ foreign' = foreign + 1
    /\ \E p \in {queue[i] : i \in 1..Len(queue)} \cup {payload} :
         /\ p.valid
         /\ p.jobId \in JobIds
         /\ queue' = Append(queue, [p EXCEPT !.copy = 2])
    /\ UNCHANGED <<faults, records, nextJobId, published, ctxCancelled,
                   pc, payload, job, execCtxErr, dirs, containers, defers,
                   execStatus, execError, exitCode, result, termWrite, trace,
                   deadlineAt, elapsed, cancelAt, logs, dispatchers, ui>>

\* ------------------------------------------------------------ environment
\* Steps of ExecuteCode during which execCtx is live.
ExecSteps == {"ensureImage", "mkdir", "writeFile", "create", "start", "wait",
              "logs"}

\* Locals of processJob and ExecuteCode, and the history of the call, as
\* they are outside a call.
ResetLocals ==
    /\ payload' = NoPayload
    /\ job' = NoJob
    /\ execCtxErr' = "none"
    /\ defers' = <<>>
    /\ execStatus' = ""
    /\ execError' = ""
    /\ exitCode' = 0
    /\ result' = NoResult
    /\ termWrite' = "none"
    /\ trace' = <<>>
    /\ deadlineAt' = "never"
    /\ elapsed' = 0
    /\ cancelAt' = "never"

\* SIGINT/SIGTERM: main() cancels the root context; execCtx is its child.
Signal ==
    /\ ~ctxCancelled
    /\ pc # "exited"
    /\ ctxCancelled' = TRUE
    /\ execCtxErr' = IF pc \in ExecSteps /\ execCtxErr = "none"
                     THEN "canceled" ELSE execCtxErr
    /\ cancelAt' = IF pc \in ExecSteps THEN pc ELSE cancelAt
    /\ UNCHANGED <<faults, queue, records, nextJobId, foreign, published, pc,
                   payload, job, dirs, containers, defers, execStatus,
                   execError, exitCode, result, termWrite, trace, deadlineAt, elapsed,
                   logs, dispatchers, ui>>

\* main() returns after the grace sleep: the process, and with it the worker
\* goroutine, ends wherever it is.
ProcessExit ==
    /\ ctxCancelled
    /\ pc # "exited"
    /\ pc' = "exited"
    /\ payload' = NoPayload
    /\ job' = NoJob
    /\ execCtxErr' = "none"
    /\ defers' = <<>>
    /\ execStatus' = ""
    /\ execError' = ""
    /\ exitCode' = 0
    /\ result' = NoResult
    /\ termWrite' = "none"
    /\ trace' = <<>>
    /\ deadlineAt' = "never"
    /\ elapsed' = 0
    /\ UNCHANGED <<faults, queue, records, nextJobId, foreign, published,
                   ctxCancelled, dirs, containers, cancelAt, logs, dispatchers, ui>>

\* The deadline of context.WithTimeout(ctx, langConfig.Timeout) passes.
DeadlineExpire ==
    /\ pc \in ExecSteps
    /\ execCtxErr = "none"
    /\ execCtxErr' = "deadline"
    /\ deadlineAt' = pc
    /\ elapsed' = DefaultTimeout
    /\ UNCHANGED <<faults, queue, records, nextJobId, foreign, published,
                   ctxCancelled, pc, payload, job, dirs, containers, defers,
                   execStatus, execError, exitCode, result, termWrite, trace,
                   cancelAt, logs, dispatchers, ui>>

\* The user program in a running container ends by itself.
ContainerExit ==
    \E j \in JobKeys, code \in ContainerExitCodes :
        /\ containers[j].state = "running"
        /\ containers' = [containers EXCEPT
                             ![j] = [@ EXCEPT !.state = "exited",
                                              !.exitCode = code]]
        /\ UNCHANGED <<faults, queue, records, nextJobId, foreign, published,
                       ctxCancelled, pc, payload, job, execCtxErr, dirs,
                       defers, execStatus, execError, exitCode, result,
                       termWrite, trace, deadlineAt, elapsed, cancelAt, logs, dispatchers, ui>>

\* ----------------------------------------------------- updateJobStatus
\* updateJobStatus without the completedAt of a terminal status.
UpdateFieldsNoCompletedAt(rec, status, res, hasResult) ==
    LET r1 == [rec EXCEPT !.status = status] IN
    IF status = "processing"
    THEN [r1 EXCEPT !.startedAt = TRUE]
    ELSE IF status \in TerminalStatuses /\ hasResult
    THEN [r1 EXCEPT !.output = res.output,
                    !.exitCode = res.exitCode,
                    !.error = IF res.error # "" THEN res.error ELSE @]
    ELSE r1

\* The $set document of updateJobStatus applied to a record: status always,
\* startedAt for processing, completedAt and the outcome fields for a terminal
\* status, error only when it is non-empty.
UpdateFields(rec, status, res, hasResult) ==
    LET r1 == [rec EXCEPT !.status = status] IN
    IF status = "processing"
    THEN [r1 EXCEPT !.startedAt = TRUE]
    ELSE IF status \in TerminalStatuses
    THEN LET r2 == [r1 EXCEPT !.completedAt = TRUE] IN
         IF hasResult
         THEN [r2 EXCEPT !.output = res.output,
                         !.exitCode = res.exitCode,
                         !.error = IF res.error # "" THEN res.error ELSE @]
         ELSE r2
    ELSE r1

\* UpdateOne with filter {jobId}: a record that does not exist is matched by
\* nothing and the call still returns nil.
UpdateOne(j, status, res, hasResult) ==
    IF records[j].status = "absent"
    THEN records
    ELSE [records EXCEPT ![j] = UpdateFields(@, status, res, hasResult)]

\* A store that answers calls made with a cancelled context.
CallCanAlwaysSucceed == TRUE

\* Calls made with the root context fail once it is cancelled.
CallCanSucceed == ~ctxCancelled

\* ------------------------------------------------------------ workerLoop
\* Top of the for loop: the select takes ctx.Done() when it is ready and the
\* default branch otherwise.
LoopTop ==
    /\ pc \in {"loop", "sleep"}
    /\ pc' = IF ctxCancelled THEN "stopped" ELSE "blpop"
    /\ ResetLocals
    /\ UNCHANGED <<faults, queue, records, nextJobId, foreign, published,
                   ctxCancelled, dirs, containers, logs, dispatchers, ui>>

\* A pop from the tail of the list (BRPOP), given as <<element, rest>>.
PopRight(q) == <<q[Len(q)], SubSeq(q, 1, Len(q) - 1)>>

\* The pop of BLPOP, from the head of the list, given as <<element, rest>>.
PopLeft(q) == <<Head(q), Tail(q)>>

\* A loop that returns on any error of BLPOP.
StopOnBLPopError == "stopped"

\* After an error of BLPOP that is not context.Canceled: log,
\* time.Sleep(1 * time.Second), continue.
AfterBLPopError == "sleep"

\* BLPOP with no timeout: returns the head of the list, context.Canceled
\* when the root context is cancelled (the loop returns), or another error
\* (logged, sleep, next iteration).
BLPop ==
    /\ pc = "blpop"
    /\ \/ /\ ~ctxCancelled
          /\ queue # <<>>
          /\ payload' = PopLeft(queue)[1]
          /\ queue' = PopLeft(queue)[2]
          /\ pc' = "parse"
          /\ UNCHANGED faults
       \/ /\ ctxCancelled
          /\ pc' = "stopped"
          /\ UNCHANGED <<queue, payload, faults>>
       \/ /\ ~ctxCancelled
          /\ Outcome(FALSE, TRUE)
          /\ pc' = AfterBLPopError
          /\ UNCHANGED <<queue, payload>>
    /\ UNCHANGED <<records, nextJobId, foreign, published, ctxCancelled, job,
                   execCtxErr, dirs, containers, defers, execStatus, execError,
                   exitCode, result, termWrite, trace, deadlineAt, elapsed, cancelAt, logs, dispatchers, ui>>

\* ------------------------------------------------------------ processJob
\* 1. json.Unmarshal: a payload that does not parse is logged and dropped.
Unmarshal ==
    /\ pc = "parse"
    /\ IF payload.valid
       THEN /\ job' = [jobId |-> payload.jobId, language |-> payload.language,
                        code |-> payload.code]
            /\ pc' = "markProcessing"
       ELSE /\ job' = NoJob
            /\ pc' = "loop"
    /\ termWrite' = "none"
    /\ result' = NoResult
    /\ UNCHANGED <<faults, queue, records, nextJobId, foreign, published,
                   ctxCancelled, payload, execCtxErr, dirs, containers, defers,
                   execStatus, execError, exitCode, trace, deadlineAt, elapsed,
                   cancelAt, logs, dispatchers, ui>>

\* processJob going on to the executor whatever the processing write returned.
AlwaysExecute(ok) == "validate"

\* Where processJob goes after the processing write.
AfterProcessingWrite(ok) == IF ok THEN "validate" ELSE "loop"

\* 2. updateJobStatus(ctx, jobId, "processing", nil); on error processJob
\* returns.
MarkProcessing ==
    /\ pc = "markProcessing"
    /\ \E ok \in BOOLEAN :
         /\ Outcome(ok, CallCanSucceed)
         /\ pc' = AfterProcessingWrite(ok)
         /\ IF ok
            THEN /\ records' = UpdateOne(job.jobId, "processing", NoResult, FALSE)
                 /\ trace' = Log("processing")
            ELSE UNCHANGED <<records, trace>>
    /\ UNCHANGED <<queue, nextJobId, foreign, published, ctxCancelled,
                   payload, job, execCtxErr, dirs, containers, defers,
                   execStatus, execError, exitCode, result, termWrite,
                   deadlineAt, elapsed, cancelAt, logs, dispatchers, ui>>

\* ------------------------------------------------ DockerProvider.ExecuteCode
\* An early return that reports exit code 0.
FailedResultExitZero(err) ==
    [status |-> "failed", output |-> "", exitCode |-> 0, error |-> err,
     executionTime |-> elapsed]

\* The ExecutionResult of every early return: failed, no output, exit code 1.
FailedResult(err) ==
    [status |-> "failed", output |-> "", exitCode |-> 1, error |-> err,
     executionTime |-> elapsed]

\* The timeout result without its error message.
TimeoutResultNoError ==
    [status |-> "timeout", output |-> TimeoutOutput,
     exitCode |-> TimeoutExitCode, error |-> "", executionTime |-> elapsed']

\* The ExecutionResult of both timeout returns of the wait select.
TimeoutResult ==
    [status |-> "timeout", output |-> TimeoutOutput,
     exitCode |-> TimeoutExitCode, error |-> "execution exceeded limit",
     executionTime |-> elapsed']

\* Calls made with execCtx fail once it is done.
ExecCallCanSucceed == execCtxErr = "none"

\* A return statement of ExecuteCode: the result is fixed, then the deferred
\* calls run.
Return(res) ==
    /\ result' = res
    /\ pc' = "unwind"

\* A lookup that finds every language.
AnyLanguageRegistered(lang) == TRUE

\* _, ok := languageMap[language]
LanguageRegistered(lang) == lang \in languageMap

\* 1. language lookup; 2. execCtx derived from ctx with the language's timeout.
Validate ==
    /\ pc = "validate"
    /\ defers' = <<>>
    /\ deadlineAt' = "never"
    /\ elapsed' = 0
    /\ execStatus' = ""
    /\ execError' = ""
    /\ exitCode' = 0
    /\ IF ~LanguageRegistered(job.language)
       THEN /\ Return(FailedResult("unsupported language: " \o job.language))
            /\ UNCHANGED execCtxErr
       ELSE /\ execCtxErr' = IF ctxCancelled THEN "canceled" ELSE "none"
            /\ pc' = "ensureImage"
            /\ UNCHANGED result
    /\ UNCHANGED <<faults, queue, records, nextJobId, foreign, published,
                   ctxCancelled, payload, job, dirs, containers, termWrite,
                   trace, cancelAt, logs, dispatchers, ui>>

\* 3. ensureImage(execCtx, image): inspect, pull when absent.
EnsureImage ==
    /\ pc = "ensureImage"
    /\ \E ok \in BOOLEAN :
         /\ Outcome(ok, ExecCallCanSucceed)
         /\ IF ok
            THEN pc' = "mkdir" /\ UNCHANGED result
            ELSE Return(FailedResult("failed to pull image"))
    /\ UNCHANGED <<queue, records, nextJobId, foreign, published,
                   ctxCancelled, payload, job, execCtxErr, dirs, containers,
                   defers, execStatus, execError, exitCode, termWrite, trace,
                   deadlineAt, elapsed, cancelAt, logs, dispatchers, ui>>

\* ExecutionVolume, as path elements.
ExecutionVolume == <<"tmp", "executions">>

\* execDir := filepath.Join(ExecutionVolume, jobID): Join drops an empty
\* element, so the empty jobId (key 0) names the volume itself.
ExecDir(jobID) ==
    IF jobID = 0 THEN ExecutionVolume ELSE Append(ExecutionVolume, jobID)

\* Path p is path q or lies under it.
IsUnder(p, q) == Len(q) <= Len(p) /\ SubSeq(p, 1, Len(q)) = q

\* os.RemoveAll(execDir) on the directories of the volume: the directory and
\* everything under it.
RemoveAll(ds, jobID) ==
    [j \in JobKeys |->
        IF IsUnder(ExecDir(j), ExecDir(jobID)) THEN "absent" ELSE ds[j]]

\* An executor that leaves the directory it made to others.
NoDeferRemoveAll(ds) == ds

\* defer func() { os.RemoveAll(execDir) }, registered right after MkdirAll.
DeferRemoveAll(ds) == Append(ds, "removeAll")

\* 4. os.MkdirAll(execDir); on success the RemoveAll of execDir is deferred.
MkdirAll ==
    /\ pc = "mkdir"
    /\ \E ok \in BOOLEAN :
         /\ Outcome(ok, TRUE)
         /\ IF ok
            THEN /\ dirs' = [dirs EXCEPT ![job.jobId] =
                                 IF @ = "absent" THEN "empty" ELSE @]
                 /\ defers' = DeferRemoveAll(defers)
                 /\ trace' = Log("mkdir")
                 /\ pc' = "writeFile"
                 /\ UNCHANGED result
            ELSE /\ Return(FailedResult("failed to create execution directory"))
                 /\ UNCHANGED <<dirs, defers, trace>>
    /\ UNCHANGED <<queue, records, nextJobId, foreign, published,
                   ctxCancelled, payload, job, execCtxErr, containers,
                   execStatus, execError, exitCode, termWrite, deadlineAt, elapsed,
                   cancelAt, logs, dispatchers, ui>>

\* 5. os.WriteFile(execDir/script<ext>, code).
WriteFile ==
    /\ pc = "writeFile"
    /\ \E ok \in BOOLEAN :
         /\ Outcome(ok, TRUE)
         /\ IF ok
            THEN /\ dirs' = [dirs EXCEPT ![job.jobId] = "code"]
                 /\ trace' = Log("writeFile")
                 /\ pc' = "create"
                 /\ UNCHANGED result
            ELSE /\ Return(FailedResult("failed to write code file"))
                 /\ UNCHANGED <<dirs, trace>>
    /\ UNCHANGED <<queue, records, nextJobId, foreign, published,
                   ctxCancelled, payload, job, execCtxErr, containers, defers,
                   execStatus, execError, exitCode, termWrite, deadlineAt, elapsed,
                   cancelAt, logs, dispatchers, ui>>

\* LanguageConfig of a registered language: image, extension, executor.
LanguageConfig(lang) ==
    IF lang = "python"
    THEN [image |-> "python:3.9-alpine", extension |-> ".py", executor |-> "python3"]
    ELSE [image |-> "node:18-alpine", extension |-> ".js", executor |-> "node"]

MemoryLimit == 128 * 1024 * 1024
MemorySwap == 128 * 1024 * 1024
CPUQuota == 50000
CPUPeriod == 100000
PidsLimit == 50

\* A container run as root.
RootUser == "root"

\* User of containerConfig.
ContainerUser == "nobody"

\* containerConfig, hostConfig and containerName as ExecuteCode builds them
\* from its arguments; the script path is given by its parts.
ContainerConfig(language, code, jobID) ==
    [image |-> LanguageConfig(language).image,
     cmd |-> <<LanguageConfig(language).executor,
               <<"/code", jobID, "script" \o LanguageConfig(language).extension>> >>,
     workingDir |-> "/code",
     networkDisabled |-> TRUE,
     user |-> ContainerUser,
     attachStdin |-> FALSE,
     tty |-> FALSE,
     memory |-> MemoryLimit,
     memorySwap |-> MemorySwap,
     cpuQuota |-> CPUQuota,
     cpuPeriod |-> CPUPeriod,
     pidsLimit |-> PidsLimit,
     readonlyRootfs |-> FALSE,
     autoRemove |-> FALSE,
     securityOpt |-> {"no-new-privileges"},
     capDrop |-> {"ALL"},
     mounts |-> {[type |-> "volume", source |-> "rce-executions",
                  target |-> "/code", readOnly |-> TRUE]},
     name |-> <<"rce-exec-", jobID>>]

\* A runtime that lets two containers have one name.
AnyNameFree(j) == TRUE

\* No container is named rce-exec-<jobId>.
NameFree(j) == containers[j].state = "none"

\* 8. ContainerCreate(execCtx, ..., "rce-exec-<jobId>"); a name in use makes
\* the create fail.  On success removeContainer is deferred.
ContainerCreate ==
    /\ pc = "create"
    /\ \E ok \in BOOLEAN :
         /\ Outcome(ok, ExecCallCanSucceed /\ NameFree(job.jobId))
         /\ IF ok
            THEN /\ containers' = [containers EXCEPT ![job.jobId] =
                                      [state |-> "created", exitCode |-> 0,
                                       removeFailed |-> FALSE,
                                       config |-> ContainerConfig(job.language,
                                                      job.code, job.jobId)]]
                 /\ defers' = Append(defers, "removeContainer")
                 /\ trace' = Log("create")
                 /\ pc' = "start"
                 /\ UNCHANGED result
            ELSE /\ Return(FailedResult("failed to create container"))
                 /\ trace' = Log("createFailed")
                 /\ UNCHANGED <<containers, defers>>
    /\ UNCHANGED <<queue, records, nextJobId, foreign, published,
                   ctxCancelled, payload, job, execCtxErr, dirs, execStatus,
                   execError, exitCode, termWrite, deadlineAt, elapsed, cancelAt, logs, dispatchers, ui>>

\* 9. ContainerStart(execCtx, containerID).
ContainerStart ==
    /\ pc = "start"
    /\ \E ok \in BOOLEAN :
         /\ Outcome(ok, ExecCallCanSucceed)
         /\ IF ok
            THEN /\ containers' = [containers EXCEPT ![job.jobId].state = "running"]
                 /\ trace' = Log("start")
                 /\ pc' = "wait"
                 /\ UNCHANGED result
            ELSE /\ Return(FailedResult("failed to start container"))
                 /\ UNCHANGED <<containers, trace>>
    /\ UNCHANGED <<queue, records, nextJobId, foreign, published,
                   ctxCancelled, payload, job, execCtxErr, dirs, defers,
                   execStatus, execError, exitCode, termWrite, deadlineAt, elapsed,
                   cancelAt, logs, dispatchers, ui>>

\* ContainerKill(killCtx, containerID, "SIGKILL") with a context of its own;
\* its error is not looked at.
KillContainer(j, ok) ==
    IF ok /\ containers[j].state = "running"
    THEN [containers EXCEPT ![j] = [@ EXCEPT !.state = "exited",
                                             !.exitCode = KilledExitCode]]
    ELSE containers

\* The timeout return shared by two branches of the wait select.
KillAndReturnTimeout(tr) ==
    /\ \E killOk \in BOOLEAN :
         /\ Outcome(killOk, TRUE)
         /\ containers' = KillContainer(job.jobId, killOk)
    /\ \E d \in {0, KillTimeout} : elapsed' = elapsed + d
    /\ trace' = Append(tr, "kill")
    /\ Return(TimeoutResult)
    /\ UNCHANGED <<execStatus, execError, exitCode>>

\* An execution context whose error is never the deadline's.
NeverDeadlineExceeded == FALSE

\* execCtx.Err() == context.DeadlineExceeded
DeadlineExceeded == execCtxErr = "deadline"

\* 10. select, case err := <-errCh.  The wait request fails by itself or
\* because execCtx is done; the channel may also deliver a nil error, which
\* the code tests for and then leaves execStatus as declared.
WaitError ==
    /\ pc = "wait"
    /\ \E errIsNil \in BOOLEAN :
         IF errIsNil
         THEN /\ Outcome(FALSE, TRUE)
              /\ pc' = "logs"
              /\ UNCHANGED <<containers, trace, result, execStatus, execError,
                             exitCode, elapsed>>
         ELSE IF DeadlineExceeded
         THEN KillAndReturnTimeout(Log("waitError"))
         ELSE /\ Outcome(FALSE, ExecCallCanSucceed)
              /\ execStatus' = "failed"
              /\ execError' = "container wait error"
              /\ exitCode' = 1
              /\ pc' = "logs"
              /\ trace' = Log("waitError")
              /\ UNCHANGED <<containers, result, elapsed>>
    /\ UNCHANGED <<queue, records, nextJobId, foreign, published,
                   ctxCancelled, payload, job, execCtxErr, dirs, defers,
                   termWrite, deadlineAt, cancelAt, logs, dispatchers, ui>>

\* A status that takes exit code 124 for a timeout.
StatusOfExitReading124(code) ==
    IF code = 0 THEN "completed"
    ELSE IF code = TimeoutExitCode THEN "timeout" ELSE "failed"

\* The status given to a container that ended by itself: completed for exit
\* code 0, failed for any other.
StatusOfExit(code) == IF code = 0 THEN "completed" ELSE "failed"

\* 10. select, case status := <-statusCh: the container is no longer running.
WaitStatus ==
    /\ pc = "wait"
    /\ containers[job.jobId].state = "exited"
    /\ exitCode' = containers[job.jobId].exitCode
    /\ execStatus' = StatusOfExit(containers[job.jobId].exitCode)
    /\ IF containers[job.jobId].exitCode = 0
       THEN UNCHANGED execError
       ELSE \E msg \in {"", "runtime error"} : execError' = msg
    /\ pc' = "logs"
    /\ UNCHANGED <<faults, queue, records, nextJobId, foreign, published,
                   ctxCancelled, payload, job, execCtxErr, dirs, containers,
                   defers, result, termWrite, trace, deadlineAt, elapsed, cancelAt, logs, dispatchers, ui>>

\* 10. select, case <-execCtx.Done(): deadline passed or root context
\* cancelled.
WaitDone ==
    /\ pc = "wait"
    /\ execCtxErr # "none"
    /\ KillAndReturnTimeout(trace)
    /\ UNCHANGED <<queue, records, nextJobId, foreign, published,
                   ctxCancelled, payload, job, execCtxErr, dirs, defers,
                   termWrite, deadlineAt, cancelAt, logs, dispatchers, ui>>

\* The result built at the end of ExecuteCode from the locals.
FinalResult(output, err) ==
    [status |-> execStatus, output |-> output, exitCode |-> exitCode,
     error |-> err, executionTime |-> elapsed']

\* A failed retrieval that replaces the error the wait step set.
LogErrorOverwrites(ok, prev) ==
    IF ~ok THEN "failed to retrieve output" ELSE prev

\* execError after getContainerLogs returned (ok: without error): a failure
\* fills it only when it is still empty.
LogError(ok, prev) ==
    IF ~ok /\ prev = "" THEN "failed to retrieve output" ELSE prev

\* 11. getContainerLogs with a context of its own, then the final return.
\* A failure to get the logs fills execError only when it is still empty.
CaptureLogs ==
    /\ pc = "logs"
    /\ \E ok \in BOOLEAN :
         LET output == IF ok THEN "logs" ELSE ""
             err == LogError(ok, execError)
         IN /\ Outcome(ok, TRUE)
            /\ \E d \in {0, LogsTimeout} : elapsed' = elapsed + d
            /\ execError' = err
            /\ Return(FinalResult(output, err))
    /\ trace' = Log("logs")
    /\ UNCHANGED <<queue, records, nextJobId, foreign, published,
                   ctxCancelled, payload, job, execCtxErr, dirs, containers,
                   defers, execStatus, exitCode, termWrite, deadlineAt,
                   cancelAt, logs, dispatchers, ui>>

\* Deferred calls run in the order they were registered.
FirstDefer(ds) == 1

\* Deferred calls run last registered first.
NextDefer(ds) == Len(ds)

WithoutDefer(ds, i) == SubSeq(ds, 1, i - 1) \o SubSeq(ds, i + 1, Len(ds))

\* The deferred calls of ExecuteCode, one per step: removeContainer
\* (ContainerRemove with a context of its own, failure logged) and
\* os.RemoveAll(execDir) (failure logged).  With none left, ExecuteCode has
\* returned to processJob.
Unwind ==
    /\ pc = "unwind"
    /\ IF defers = <<>>
       THEN /\ pc' = "markTerminal"
            /\ UNCHANGED <<defers, containers, dirs, trace, faults>>
       ELSE LET i == NextDefer(defers) IN
            /\ defers' = WithoutDefer(defers, i)
            /\ pc' = "unwind"
            /\ \E ok \in BOOLEAN :
                 /\ Outcome(ok, TRUE)
                 /\ IF defers[i] = "removeContainer"
                    THEN /\ containers' =
                              IF ok
                              THEN [containers EXCEPT ![job.jobId] = NoContainer]
                              ELSE [containers EXCEPT
                                        ![job.jobId].removeFailed = TRUE]
                         /\ trace' = Log("removeContainer")
                         /\ UNCHANGED dirs
                    ELSE /\ dirs' = IF ok THEN RemoveAll(dirs, job.jobId) ELSE dirs
                         /\ trace' = IF ok
                                     THEN Log("removeAll")
                                     ELSE trace \o <<"removeAll", "removeAllFailed">>
                         /\ UNCHANGED containers
    /\ UNCHANGED <<queue, records, nextJobId, foreign, published,
                   ctxCancelled, payload, job, execCtxErr, execStatus,
                   execError, exitCode, result, termWrite, deadlineAt, elapsed,
                   cancelAt, logs, dispatchers, ui>>

\* ------------------------------------------------- processJob, continued
\* processJob going on to the notification whatever the write returned.
AlwaysNotify(ok) == "notify"

\* Where processJob goes after the write of the outcome.
AfterTerminalWrite(ok) == IF ok THEN "notify" ELSE "loop"

\* 5. updateJobStatus(ctx, jobId, result.Status, result); on error processJob
\* returns.  (ExecuteCode returns a nil error on every path, so the branch of
\* step 3 that handles an error is never taken.)
MarkTerminal ==
    /\ pc = "markTerminal"
    /\ \E ok \in BOOLEAN :
         /\ Outcome(ok, CallCanSucceed)
         /\ termWrite' = IF ok THEN "ok" ELSE "error"
         /\ pc' = AfterTerminalWrite(ok)
         /\ IF ok
            THEN /\ records' = UpdateOne(job.jobId, result.status, result, TRUE)
                 /\ trace' = Log("terminal")
            ELSE UNCHANGED <<records, trace>>
    /\ UNCHANGED <<queue, nextJobId, foreign, published, ctxCancelled,
                   payload, job, execCtxErr, dirs, containers, defers,
                   execStatus, execError, exitCode, result, deadlineAt, elapsed,
                   cancelAt, logs, dispatchers, ui>>

\* A dispatcher that stops when the publish fails.
StopOnNotifyError(ok) == IF ok THEN "loop" ELSE "stopped"

\* Where processJob goes after the publish: it returns either way.
AfterNotify(ok) == "loop"

\* 6. notifyAnalysisWorker: PUBLISH on analysis_queue; an error is logged.
Notify ==
    /\ pc = "notify"
    /\ \E ok \in BOOLEAN :
         /\ Outcome(ok, CallCanSucceed)
         /\ IF ok
            THEN /\ published' = Append(published, job.jobId)
                 /\ trace' = Log("notify")
            ELSE UNCHANGED <<published, trace>>
         /\ pc' = AfterNotify(ok)
    /\ UNCHANGED <<queue, records, nextJobId, foreign, ctxCancelled,
                   payload, job, execCtxErr, dirs, containers, defers,
                   execStatus, execError, exitCode, result, termWrite,
                   deadlineAt, elapsed, cancelAt, logs, dispatchers, ui>>

\* ---------------------------------------------------------- specification
Worker ==
    \/ LoopTop \/ BLPop \/ Unmarshal \/ MarkProcessing
    \/ Validate \/ EnsureImage \/ MkdirAll \/ WriteFile
    \/ ContainerCreate \/ ContainerStart
    \/ WaitError \/ WaitStatus \/ WaitDone
    \/ CaptureLogs \/ Unwind \/ MarkTerminal \/ Notify

Next ==
    \/ Submit \/ PushMalformed
    \/ Signal \/ ProcessExit \/ DeadlineExpire \/ ContainerExit
    \/ LoopTop \/ BLPop \/ Unmarshal \/ MarkProcessing
    \/ Validate \/ EnsureImage \/ MkdirAll \/ WriteFile
    \/ ContainerCreate \/ ContainerStart
    \/ WaitError \/ WaitStatus \/ WaitDone
    \/ CaptureLogs \/ Unwind \/ MarkTerminal \/ Notify

Spec == Init /\ [][Next]_vars

\* The worker goroutine takes a step whenever it can, and the timer of the
\* deadline fires.
FairSpec == Spec /\ WF_vars(Worker) /\ WF_vars(DeadlineExpire)

\* ------------------------------------------------------ getContainerLogs
\* Bytes a program writes, and the bytes strings.TrimRight cuts.
LogChars == {"a", "\n", " "}
Whitespace == {"\n", "\r", "\t", " "}
MaxData == 2
MaxFrames == 2

\* The multiplexed stream ContainerLogs returns for a container without a
\* TTY: frames, each a header naming stdout or stderr and then its data.
FrameData == UNION {[1..n -> LogChars] : n \in 1..MaxData}
Frames == [fd : {"stdout", "stderr"}, data : FrameData]
Streams == UNION {[1..n -> Frames] : n \in 0..MaxFrames}

\* The 8 bytes of a frame's header, as one element.
Header(fd) == "<" \o fd \o ">"

\* stdcopy.StdCopy: what it writes to the buffer of descriptor fd.
RECURSIVE Demux(_, _)
Demux(stream, fd) ==
    IF stream = <<>> THEN <<>>
    ELSE (IF Head(stream).fd = fd THEN Head(stream).data ELSE <<>>)
         \o Demux(Tail(stream), fd)

\* io.Copy of the stream into one buffer: headers and data as they come.
RECURSIVE Raw(_)
Raw(stream) ==
    IF stream = <<>> THEN <<>>
    ELSE <<Header(Head(stream).fd)>> \o Head(stream).data \o Raw(Tail(stream))

\* strings.TrimRight(s, cutset)
RECURSIVE TrimRight(_, _)
TrimRight(s, cutset) ==
    IF s # <<>> /\ s[Len(s)] \in cutset
    THEN TrimRight(SubSeq(s, 1, Len(s) - 1), cutset)
    ELSE s

\* strings.HasSuffix(s, "\n")
HasSuffixNewline(s) == s # <<>> /\ s[Len(s)] = "\n"

\* "Combine stdout and stderr" of getContainerLogs.
Combine(stdout, stderr) ==
    IF Len(stderr) > 0
    THEN (IF stdout # <<>> /\ ~HasSuffixNewline(stdout)
          THEN stdout \o <<"\n">> ELSE stdout) \o stderr
    ELSE stdout

\* getContainerLogs on a stream: logsOk, the first ContainerLogs returned no
\* error; demuxOk, StdCopy returned no error; reopenOk, the ContainerLogs of
\* the fallback returned a stream.
getContainerLogs(stream, logsOk, demuxOk, reopenOk) ==
    IF ~logsOk
    THEN [path |-> "error", output |-> <<>>, err |-> TRUE]
    ELSE IF ~demuxOk
    THEN IF reopenOk
         THEN [path |-> "fallback", output |-> Raw(stream), err |-> FALSE]
         ELSE [path |-> "error", output |-> <<>>, err |-> TRUE]
    ELSE [path |-> "demux",
          output |-> TrimRight(Combine(Demux(stream, "stdout"),
                                       Demux(stream, "stderr")), Whitespace),
          err |-> FALSE]

\* One call of getContainerLogs on the stream of a container.
GetContainerLogs ==
    /\ logs.path = "none"
    /\ \E logsOk \in BOOLEAN, demuxOk \in BOOLEAN, reopenOk \in BOOLEAN :
         LET r == getContainerLogs(logs.stream, logsOk, demuxOk, reopenOk)
         IN logs' = [logs EXCEPT !.path = r.path, !.output = r.output,
                                 !.err = r.err]
    /\ UNCHANGED <<queue, records, nextJobId, foreign, faults, published,
                   ctxCancelled, pc, payload, job, execCtxErr, dirs, containers,
                   defers, execStatus, execError, exitCode, result, termWrite,
                   trace, deadlineAt, elapsed, cancelAt, dispatchers, ui>>

\* getContainerLogs over every stream of at most MaxFrames frames.
LogsInit ==
    /\ InitWorker
    /\ logs \in {[NoLogs EXCEPT !.stream = st] : st \in Streams}
    /\ dispatchers = [w \in Dispatchers |-> NoDispatcher]
    /\ ui = NoUi

LogsNext == GetContainerLogs

LogsSpec == LogsInit /\ [][LogsNext]_vars

\* The queue is a list any client can push to: besides the gateway's jobs,
\* payloads that lack a field and payloads pushed twice.
OpenQueueNext == Next \/ PushIncomplete \/ PushDuplicate

OpenQueueSpec == Init /\ [][OpenQueueNext]_vars

\* ------------------------------------------------- two worker processes
\* Two processes of this program on one submission_queue, one volume and one
\* container runtime.  Each runs workerLoop, processJob and ExecuteCode; of
\* a call, the steps on the volume and the runtime are followed, with the
\* record store, the image and the log retrieval answering without error.

\* workerLoop and processJob up to ExecuteCode's language lookup: BLPOP hands
\* the head of the list to one process; a job in a language that is not
\* registered returns before a directory is made.
DispatcherBLPop(w) ==
    /\ dispatchers[w].pc = "blpop"
    /\ queue # <<>>
    /\ PopLeft(queue)[1].valid
    /\ queue' = PopLeft(queue)[2]
    /\ dispatchers' = [dispatchers EXCEPT ![w] =
           [NoDispatcher EXCEPT
               !.pc = IF LanguageRegistered(PopLeft(queue)[1].language)
                      THEN "mkdir" ELSE "blpop",
               !.jobId = PopLeft(queue)[1].jobId,
               !.language = PopLeft(queue)[1].language,
               !.code = PopLeft(queue)[1].code]]
    /\ UNCHANGED <<records, nextJobId, foreign, faults, published,
                   ctxCancelled, pc, payload, job, execCtxErr, dirs,
                   containers, defers, execStatus, execError, exitCode,
                   result, termWrite, trace, deadlineAt, elapsed,
                   cancelAt, logs, ui>>

\* 4. os.MkdirAll(execDir) succeeds whether or not the directory exists; the
\* RemoveAll is deferred.
DispatcherMkdirAll(w) ==
    /\ dispatchers[w].pc = "mkdir"
    /\ dirs' = [dirs EXCEPT ![dispatchers[w].jobId] =
                    IF @ = "absent" THEN "empty" ELSE @]
    /\ dispatchers' = [dispatchers EXCEPT
           ![w].defers = DeferRemoveAll(@),
           ![w].pc = "writeFile"]
    /\ UNCHANGED <<queue, records, nextJobId, foreign, faults,
                   published, ctxCancelled, pc, payload, job,
                   execCtxErr, containers, defers, execStatus,
                   execError, exitCode, result, termWrite, trace,
                   deadlineAt, elapsed, cancelAt, logs, ui>>

\* 5. os.WriteFile(execDir/script<ext>): replaces the file when it is there,
\* fails when the directory is gone.
DispatcherWriteFile(w) ==
    /\ dispatchers[w].pc = "writeFile"
    /\ IF dirs[dispatchers[w].jobId] = "absent"
       THEN /\ dispatchers' = [dispatchers EXCEPT ![w].pc = "unwind"]
            /\ UNCHANGED dirs
       ELSE /\ dirs' = [dirs EXCEPT ![dispatchers[w].jobId] = "code"]
            /\ dispatchers' = [dispatchers EXCEPT
                   ![w].pc = "create",
                   ![w].wroteUnder = ~NameFree(dispatchers[w].jobId)]
    /\ UNCHANGED <<queue, records, nextJobId, foreign, faults,
                   published, ctxCancelled, pc, payload, job,
                   execCtxErr, containers, defers, execStatus,
                   execError, exitCode, result, termWrite, trace,
                   deadlineAt, elapsed, cancelAt, logs, ui>>

\* 8. ContainerCreate under the name rce-exec-<jobId>: fails when the name is
\* in use; on success removeContainer is deferred.
DispatcherContainerCreate(w) ==
    /\ dispatchers[w].pc = "create"
    /\ IF NameFree(dispatchers[w].jobId)
       THEN /\ containers' = [containers EXCEPT ![dispatchers[w].jobId] =
                                 [state |-> "created", exitCode |-> 0,
                                  removeFailed |-> FALSE,
                                  config |-> ContainerConfig(dispatchers[w].language,
                                                 dispatchers[w].code,
                                                 dispatchers[w].jobId)]]
            /\ dispatchers' = [dispatchers EXCEPT
                   ![w].defers = Append(@, "removeContainer"),
                   ![w].pc = "start"]
       ELSE /\ dispatchers' = [dispatchers EXCEPT
                   ![w].createFailed = TRUE,
                   ![w].pc = "unwind"]
            /\ UNCHANGED containers
    /\ UNCHANGED <<queue, records, nextJobId, foreign, faults,
                   published, ctxCancelled, pc, payload, job,
                   execCtxErr, dirs, defers, execStatus, execError,
                   exitCode, result, termWrite, trace, deadlineAt,
                   elapsed, cancelAt, logs, ui>>

\* 9. ContainerStart.
DispatcherContainerStart(w) ==
    /\ dispatchers[w].pc = "start"
    /\ containers' = [containers EXCEPT ![dispatchers[w].jobId].state = "running"]
    /\ dispatchers' = [dispatchers EXCEPT ![w].pc = "wait"]
    /\ UNCHANGED <<queue, records, nextJobId, foreign, faults,
                   published, ctxCancelled, pc, payload, job,
                   execCtxErr, dirs, defers, execStatus, execError,
                   exitCode, result, termWrite, trace, deadlineAt,
                   elapsed, cancelAt, logs, ui>>

\* 10. select: the container has exited (statusCh), or the deadline passed
\* and the container is killed; then the return (the logs are read first on
\* the first path).
DispatcherWait(w) ==
    /\ dispatchers[w].pc = "wait"
    /\ containers' = IF containers[dispatchers[w].jobId].state = "exited"
                     THEN containers
                     ELSE KillContainer(dispatchers[w].jobId, TRUE)
    /\ dispatchers' = [dispatchers EXCEPT ![w].pc = "unwind"]
    /\ UNCHANGED <<queue, records, nextJobId, foreign, faults,
                   published, ctxCancelled, pc, payload, job,
                   execCtxErr, dirs, defers, execStatus, execError,
                   exitCode, result, termWrite, trace, deadlineAt,
                   elapsed, cancelAt, logs, ui>>

\* The deferred calls, last registered first: removeContainer of the
\* process's own container, os.RemoveAll(execDir).  With none left the
\* process writes the outcome and goes back to BLPOP.
DispatcherUnwind(w) ==
    /\ dispatchers[w].pc = "unwind"
    /\ LET ds == dispatchers[w].defers
           j == dispatchers[w].jobId
       IN IF ds = <<>>
          THEN /\ dispatchers' = [dispatchers EXCEPT ![w] = NoDispatcher]
               /\ UNCHANGED <<containers, dirs>>
          ELSE IF ds[NextDefer(ds)] = "removeContainer"
          THEN /\ containers' = [containers EXCEPT ![j] = NoContainer]
               /\ dispatchers' = [dispatchers EXCEPT
                      ![w].defers = WithoutDefer(ds, NextDefer(ds))]
               /\ UNCHANGED dirs
          ELSE /\ dirs' = RemoveAll(dirs, j)
               /\ dispatchers' = [dispatchers EXCEPT
                      ![w].defers = WithoutDefer(ds, NextDefer(ds)),
                      ![w].removedUnder = ~NameFree(j)]
               /\ UNCHANGED containers
    /\ UNCHANGED <<queue, records, nextJobId, foreign, faults,
                   published, ctxCancelled, pc, payload, job,
                   execCtxErr, defers, execStatus, execError, exitCode,
                   result, termWrite, trace, deadlineAt, elapsed,
                   cancelAt, logs, ui>>

TwoDispatchersNext ==
    \/ Submit \/ PushDuplicate \/ ContainerExit
    \/ \E w \in Dispatchers : DispatcherBLPop(w)
    \/ \E w \in Dispatchers : DispatcherMkdirAll(w)
    \/ \E w \in Dispatchers : DispatcherWriteFile(w)
    \/ \E w \in Dispatchers : DispatcherContainerCreate(w)
    \/ \E w \in Dispatchers : DispatcherContainerStart(w)
    \/ \E w \in Dispatchers : DispatcherWait(w)
    \/ \E w \in Dispatchers : DispatcherUnwind(w)

TwoDispatchersSpec == Init /\ [][TwoDispatchersNext]_vars

\* ---------------------------------------------------- frontend: Workspace
\* The Workspace component and pollJobStatus, against the gateway's /submit
\* and /status/:jobId.  The execution worker and the analysis worker are
\* seen through the records they write.
MaxAttempts == 3

\* The cleanup function pollJobStatus returned for the poller of job r
\* (r = 0: the ref holds none): stopped = true, and a pending timer is
\* cleared, so that poll is not called again.
Cleanup(ps, r) ==
    IF r = 0 THEN ps
    ELSE [ps EXCEPT ![r].stopped = TRUE,
                    ![r].pc = IF @ = "waiting" THEN "done" ELSE @]

\* A field of a response body; a field the body lacks reads undefined.
Field(resp, f) == IF f \in DOMAIN resp THEN resp[f] ELSE Unset

\* A poller that never gives up.
NeverMaxReached(attempts) == FALSE

\* attempts >= maxAttempts
MaxReached(attempts) == attempts >= MaxAttempts

\* The terminal states pollJobStatus and the Workspace test for.
IsTerminal(status) == status \in {"completed", "failed", "timeout"}

\* The onUpdate callback of handleRun applied to the Workspace's state.
OnUpdate(d, resp) ==
    LET hasReport == Field(resp, "analysisReport") # Unset
        terminal == IsTerminal(resp.status)
    IN [d EXCEPT !.status = resp.status,
                 !.output = Field(resp, "output"),
                 !.error = resp.error,
                 !.analysisReport = IF hasReport THEN resp.analysisReport ELSE @,
                 !.isAnalyzing = IF terminal /\ ~hasReport THEN TRUE
                                 ELSE IF hasReport THEN FALSE ELSE @,
                 !.isPolling = IF terminal THEN FALSE ELSE @,
                 !.isSubmitting = IF terminal THEN FALSE ELSE @]

\* The onError callback of handleRun applied to the Workspace's state.
OnError(d, msg) ==
    [d EXCEPT !.error = msg, !.status = "failed", !.isPolling = FALSE,
              !.isSubmitting = FALSE, !.isAnalyzing = FALSE]

\* A state update of a component that is no longer mounted has no effect.
Display(d) == IF ui.mounted THEN d ELSE ui.display

\* handleRun up to the await of submitCode: the cleanup in the ref is
\* called, the state is reset, the request is sent.  The Header's Run
\* button is disabled while isSubmitting is true.
HandleRun ==
    /\ ui.mounted
    /\ ~ui.submitting
    /\ ~ui.display.isSubmitting
    /\ nextJobId + foreign <= MaxJobs
    /\ ui' = [ui EXCEPT !.pollers = Cleanup(@, ui.cleanupRef),
                        !.cleanupRef = 0,
                        !.submitting = TRUE,
                        !.display = [NoDisplay EXCEPT !.isSubmitting = TRUE]]
    /\ UNCHANGED <<queue, records, nextJobId, foreign, faults,
                   published, ctxCancelled, pc, payload, job,
                   execCtxErr, dirs, containers, defers, execStatus,
                   execError, exitCode, result, termWrite, trace,
                   deadlineAt, elapsed, cancelAt, logs, dispatchers>>

\* submitCode resolves with the 202 of POST /submit (record saved, job
\* pushed) and handleRun goes on: pollJobStatus is called, whose first poll
\* sends the first status request, and its cleanup is put in the ref; or
\* submitCode rejects and the catch branch runs.
SubmitResolved ==
    /\ ui.submitting
    /\ \E ok \in BOOLEAN :
         IF ok
         THEN /\ records' = [records EXCEPT ![nextJobId] =
                                [NoRecord EXCEPT !.status = "queued"]]
              /\ queue' = Append(queue, [valid |-> TRUE, jobId |-> nextJobId,
                                         language |-> "python",
                                         code |-> "print(1)", copy |-> 1])
              /\ nextJobId' = nextJobId + 1
              /\ ui' = [ui EXCEPT
                     !.submitting = FALSE,
                     !.cleanupRef = nextJobId,
                     !.pollers[nextJobId] =
                         [NoPoller EXCEPT !.pc = "inflight", !.attempts = 1],
                     !.display = Display([@ EXCEPT !.job = nextJobId,
                                                   !.status = "queued",
                                                   !.isPolling = TRUE])]
         ELSE /\ ui' = [ui EXCEPT
                     !.submitting = FALSE,
                     !.display = Display([@ EXCEPT !.error = "Failed to submit code",
                                                   !.status = "failed",
                                                   !.isSubmitting = FALSE,
                                                   !.isAnalyzing = FALSE])]
              /\ UNCHANGED <<records, queue, nextJobId>>
    /\ UNCHANGED <<foreign, faults, published, ctxCancelled, pc,
                   payload, job, execCtxErr, dirs, containers, defers,
                   execStatus, execError, exitCode, result, termWrite,
                   trace, deadlineAt, elapsed, cancelAt, logs,
                   dispatchers>>

\* The await of getJobStatus in poll ends, with the body of GET
\* /status/:jobId or with a rejection.  onUpdate is called with the body;
\* then poll stops on a terminal status, calls onError when the attempts are
\* used up, or sets the timer of the next poll.
StatusArrives ==
    \E r \in JobIds, ok \in BOOLEAN :
        /\ ui.pollers[r].pc = "inflight"
        /\ LET p == ui.pollers[r]
               resp == StatusResponse(r)
               late == p.late \/ p.stopped
           IN IF ~ok
              THEN ui' = [ui EXCEPT
                      !.pollers[r] = [p EXCEPT !.pc = "done", !.late = late,
                                               !.errors = @ + 1],
                      !.display = Display(OnError(@, "request failed"))]
              ELSE IF IsTerminal(resp.status)
              THEN ui' = [ui EXCEPT
                      !.pollers[r] = [p EXCEPT !.pc = "done", !.late = late],
                      !.display = Display(OnUpdate(@, resp))]
              ELSE IF MaxReached(p.attempts)
              THEN ui' = [ui EXCEPT
                      !.pollers[r] = [p EXCEPT !.pc = "done", !.late = late,
                                               !.errors = @ + 1],
                      !.display = Display(OnError(OnUpdate(@, resp),
                                                  "Polling timeout"))]
              ELSE ui' = [ui EXCEPT
                      !.pollers[r] = [p EXCEPT !.pc = "waiting", !.late = late],
                      !.display = Display(OnUpdate(@, resp))]
    /\ UNCHANGED <<queue, records, nextJobId, foreign, faults,
                   published, ctxCancelled, pc, payload, job,
                   execCtxErr, dirs, containers, defers, execStatus,
                   execError, exitCode, result, termWrite, trace,
                   deadlineAt, elapsed, cancelAt, logs, dispatchers>>

\* The timer set by poll fires and poll runs: it returns when stopped, else
\* it counts the attempt and sends the next status request.
TimerFires ==
    \E r \in JobIds :
        /\ ui.pollers[r].pc = "waiting"
        /\ ui' = [ui EXCEPT !.pollers[r] =
                      IF @.stopped
                      THEN [@ EXCEPT !.pc = "done"]
                      ELSE [@ EXCEPT !.pc = "inflight", !.attempts = @ + 1]]
    /\ UNCHANGED <<queue, records, nextJobId, foreign, faults,
                   published, ctxCancelled, pc, payload, job,
                   execCtxErr, dirs, containers, defers, execStatus,
                   execError, exitCode, result, termWrite, trace,
                   deadlineAt, elapsed, cancelAt, logs, dispatchers>>

\* The Workspace is unmounted: the effect's cleanup calls the cleanup in the
\* ref.
Unmount ==
    /\ ui.mounted
    /\ ui' = [ui EXCEPT !.mounted = FALSE,
                        !.pollers = Cleanup(@, ui.cleanupRef)]
    /\ UNCHANGED <<queue, records, nextJobId, foreign, faults,
                   published, ctxCancelled, pc, payload, job,
                   execCtxErr, dirs, containers, defers, execStatus,
                   execError, exitCode, result, termWrite, trace,
                   deadlineAt, elapsed, cancelAt, logs, dispatchers>>

\* The execution worker writes a job's record: processing, then the outcome.
RecordProgress ==
    \E j \in JobIds :
        /\ \/ /\ records[j].status = "queued"
              /\ records' = UpdateOne(j, "processing", NoResult, FALSE)
           \/ /\ records[j].status = "processing"
              /\ \E st \in TerminalStatuses :
                    records' = UpdateOne(j, st,
                                   [NoResult EXCEPT !.status = st,
                                                    !.output = "logs"], TRUE)
    /\ UNCHANGED <<queue, nextJobId, foreign, faults, published,
                   ctxCancelled, pc, payload, job, execCtxErr, dirs,
                   containers, defers, execStatus, execError, exitCode,
                   result, termWrite, trace, deadlineAt, elapsed,
                   cancelAt, logs, dispatchers, ui>>

\* The analysis worker stores its report in the record of a job whose
\* execution has ended.
StoreReport ==
    \E j \in JobIds :
        /\ records[j].status \in TerminalStatuses
        /\ records[j].analysisReport = Unset
        /\ records' = [records EXCEPT ![j].analysisReport = "report"]
    /\ UNCHANGED <<queue, nextJobId, foreign, faults, published,
                   ctxCancelled, pc, payload, job, execCtxErr, dirs,
                   containers, defers, execStatus, execError, exitCode,
                   result, termWrite, trace, deadlineAt, elapsed,
                   cancelAt, logs, dispatchers, ui>>

PollerStep == StatusArrives \/ TimerFires

WorkspaceNext ==
    \/ HandleRun \/ SubmitResolved \/ StatusArrives \/ TimerFires \/ Unmount
    \/ RecordProgress \/ StoreReport

WorkspaceSpec == Init /\ [][WorkspaceNext]_vars

\* Requests get their answers, timers fire, and the workers behind the
\* record store do their writes.
WorkspaceFairSpec ==
    /\ WorkspaceSpec
    /\ WF_vars(PollerStep)
    /\ WF_vars(SubmitResolved)
    /\ WF_vars(RecordProgress)
    /\ WF_vars(StoreReport)

\* ------------------------------------------------------- reading the state
Has(e) == \E i \in 1..Len(trace) : trace[i] = e
Pos(e) == CHOOSE i \in 1..Len(trace) : trace[i] = e
Before(a, b) == Has(a) /\ Has(b) /\ Pos(a) < Pos(b)

\* ExecuteCode has fixed the result it returns.
HasOutcome == result.status # "<none>"
\* processJob has returned and its locals are still to be seen.
ProcessJobReturned == pc = "loop" /\ job # NoJob
\* The payload of job j has been dequeued and handed to processJob.
Dispatched(j) == pc = "parse" /\ payload.valid /\ payload.jobId = j

\* ------------------------------------------------------------------ C1
\* C1 as stated: after a container was created by the call, the scratch
\* directory is gone only once that container is gone, and both are gone when
\* ExecuteCode has returned.
C1_ScratchOutlivesContainer ==
    (job # NoJob /\ Has("create")) =>
        /\ dirs[job.jobId] = "absent" => containers[job.jobId].state = "none"
        /\ pc = "markTerminal" =>
               (dirs[job.jobId] = "absent" /\ containers[job.jobId].state = "none")

\* C1 (amended): the scratch directory is made and the code file written
\* before the container is created; once a container was created, every
\* return of ExecuteCode has invoked the removal of the container and then the
\* removal of the scratch directory, and the removal of the directory is never
\* invoked before the removal of the container.
C1_CleanupOrder ==
    /\ Has("create") => (Before("mkdir", "writeFile") /\ Before("writeFile", "create"))
    /\ (Has("create") /\ Has("removeAll")) => Before("removeContainer", "removeAll")
    /\ (Has("create") /\ pc \in {"markTerminal", "notify", "loop"}) =>
           (Has("removeContainer") /\ Has("removeAll"))

C1_Witness ==
    /\ pc = "markTerminal"
    /\ Has("create")
    /\ Has("kill")
    /\ Before("removeContainer", "removeAll")

\* ------------------------------------------------------------------ C2
\* C2 as stated, read where nothing more is done for the job (processJob has
\* returned; no later step writes the job's record or removes its container):
\* the record has a terminal status and completedAt, and no container of the
\* job's name exists.
C2_TerminalOnReturn ==
    ProcessJobReturned =>
        /\ records[job.jobId].status \in TerminalStatuses
        /\ records[job.jobId].completedAt
        /\ containers[job.jobId].state = "none"

\* What a processJob call leaves behind when it returns: the record carries
\* the outcome's status exactly when the write of the outcome returned
\* success, and a container of the job's name is left only by a failed removal.
C2_ReturnState ==
    ProcessJobReturned =>
        /\ termWrite = "ok" =>
               /\ records[job.jobId].status = result.status
               /\ result.status \in TerminalStatuses => records[job.jobId].completedAt
        /\ termWrite # "ok" => records[job.jobId].status \notin TerminalStatuses
        /\ containers[job.jobId].state # "none" =>
               (Has("create") /\ Has("removeContainer"))

\* C2 (amended): processJob returns for every job handed to it unless the
\* process exits first; when the write of the outcome returned success the
\* record carries the outcome's status, with completedAt set whenever that
\* status is completed, failed or timeout; when that write or the processing
\* write failed the record has no terminal status; and a container of the
\* job's name is left only by a removal that failed.
C2_ProcessJobReturns ==
    /\ [](C2_ReturnState)
    /\ \A j \in JobIds : Dispatched(j) ~> (pc \in {"loop", "exited"})

C2_Witness ==
    /\ ProcessJobReturned
    /\ termWrite = "ok"
    /\ records[job.jobId].status = "timeout"
    /\ records[job.jobId].completedAt
    /\ containers[job.jobId].state = "none"

\* ------------------------------------------------------------------ C3
\* C3 as stated: when the deadline expires before the outcome is produced,
\* during image ensure, create, start or wait, the outcome is timeout with
\* exit code 124.
C3_DeadlineGivesTimeout ==
    (HasOutcome /\ deadlineAt \in {"ensureImage", "create", "start", "wait"}) =>
        (result.status = "timeout" /\ result.exitCode = TimeoutExitCode)

\* ------------------------------------------------------------------ C4
\* C4 as stated: when the root context is cancelled during the wait on a
\* started container and the deadline has not expired, the outcome is failed
\* with exit code 1 and error "cancelled".
C4_CancelGivesFailed ==
    (HasOutcome /\ cancelAt = "wait" /\ deadlineAt = "never") =>
        /\ result.status = "failed"
        /\ result.exitCode = 1
        /\ result.error = "cancelled"

\* ------------------------------------------------------------------ C5
\* C5: a step that publishes on the analysis channel is taken only by a
\* processJob call whose payload parsed, whose processing write succeeded and
\* whose write of the outcome returned success earlier in the call.
C5_PublishAfterTerminalWrite ==
    [][published' # published =>
          /\ termWrite = "ok"
          /\ payload.valid
          /\ Before("processing", "terminal")
          /\ published' = Append(published, job.jobId)]_vars

C5_Witness ==
    /\ ProcessJobReturned
    /\ Has("notify")
    /\ termWrite = "ok"
    /\ published = <<job.jobId>>

\* ------------------------------------------------------------------ C6
\* C6: within a call the processing write, the container start, the write of
\* the outcome and the notification happen in this order, none without the
\* processing write; and a record with a terminal status has startedAt set.
C6_EffectOrder ==
    /\ Has("start") => Before("processing", "start")
    /\ Has("terminal") => Before("processing", "terminal")
    /\ (Has("start") /\ Has("terminal")) => Before("start", "terminal")
    /\ Has("notify") => Before("terminal", "notify")
    /\ \A j \in JobIds :
           records[j].status \in TerminalStatuses => records[j].startedAt

C6_Witness ==
    /\ Before("processing", "start")
    /\ Before("start", "terminal")
    /\ Before("terminal", "notify")
    /\ records[job.jobId].status = "completed"
    /\ records[job.jobId].startedAt

\* ------------------------------------------------------------------ C7
\* C7 as stated: exitCode is 0 exactly when status is completed, timeout
\* implies 124, and an exitCode other than 0 and 124 implies failed.
C7_ExitCodeMatchesStatus ==
    HasOutcome =>
        /\ (result.exitCode = 0) <=> (result.status = "completed")
        /\ result.status = "timeout" => result.exitCode = TimeoutExitCode
        /\ result.exitCode \notin {0, TimeoutExitCode} => result.status = "failed"

\* ------------------------------------------------------------------ C8
\* C8 as stated: every outcome, and every status written with an outcome,
\* is completed, failed or timeout.
C8_StatusIsTerminal ==
    /\ HasOutcome => result.status \in TerminalStatuses
    /\ (job # NoJob /\ termWrite = "ok") =>
           records[job.jobId].status \in TerminalStatuses

\* ------------------------------------------------------------------ C9
\* C9 as stated, for outcomes whose status is completed, failed or timeout:
\* error is non-empty when status is not completed and empty when it is; a
\* record that ends failed or timeout has an error field.
C9_ErrorIffNotCompleted ==
    /\ (HasOutcome /\ result.status \in TerminalStatuses) =>
           ((result.error = "") <=> (result.status = "completed"))
    /\ \A j \in JobIds :
           records[j].status \in {"failed", "timeout"} => records[j].error # Unset

\* C9 (amended): a timeout outcome has a non-empty error; a failed outcome
\* has an empty error only when the container exited non-zero by itself, the
\* runtime gave no message and the logs were retrieved; a completed outcome
\* has a non-empty error only when log retrieval failed (and then an empty
\* output); and the record written with an outcome gets the outcome's error
\* when that is non-empty and no error field otherwise.
C9_ErrorField ==
    /\ HasOutcome =>
           /\ result.status = "timeout" => result.error # ""
           /\ (result.status = "failed" /\ result.error = "") =>
                  /\ Before("start", "logs")
                  /\ result.exitCode # 0
                  /\ result.output = "logs"
           /\ (result.status = "completed" /\ result.error # "") =>
                  /\ result.error = "failed to retrieve output"
                  /\ result.output = ""
    /\ (job # NoJob /\ termWrite = "ok" /\ result.status \in TerminalStatuses) =>
           records[job.jobId].error =
               IF result.error # "" THEN result.error ELSE Unset

C9_Witness ==
    /\ ProcessJobReturned
    /\ termWrite = "ok"
    /\ result.status = "failed"
    /\ result.error = ""
    /\ records[job.jobId].status = "failed"
    /\ records[job.jobId].error = Unset

\* ------------------------------------------------------------------ C10
\* C10: for a job whose language is not registered the outcome is failed,
\* exit code 1, no output, error "unsupported language: <lang>"; the call
\* makes no scratch directory and no container; processJob issues the write of
\* that outcome before it returns, and a successful write leaves it in the
\* record.
C10_UnsupportedLanguage ==
    (job # NoJob /\ job.language \notin languageMap) =>
        /\ ~Has("mkdir") /\ ~Has("create")
        /\ dirs[job.jobId] = "absent"
        /\ containers[job.jobId].state = "none"
        /\ pc \notin ExecSteps
        /\ HasOutcome =>
               result = [status |-> "failed", output |-> "", exitCode |-> 1,
                         error |-> "unsupported language: " \o job.language,
                         executionTime |-> 0]
        /\ (ProcessJobReturned /\ Has("processing")) => termWrite # "none"
        /\ termWrite = "ok" =>
               /\ records[job.jobId].status = "failed"
               /\ records[job.jobId].completedAt
               /\ records[job.jobId].output = ""
               /\ records[job.jobId].exitCode = 1
               /\ records[job.jobId].error = result.error

C10_Witness ==
    /\ ProcessJobReturned
    /\ job.language = "cpp"
    /\ termWrite = "ok"
    /\ records[job.jobId].status = "failed"
    /\ records[job.jobId].error = "unsupported language: cpp"

\* ------------------------------------------------------------------ C11
\* The early returns of ExecuteCode that come before the container is created.
EarlyErrors == {"failed to pull image", "failed to create execution directory",
                "failed to write code file"}

\* C11: when ensuring the image, making the scratch directory or writing the
\* code file fails, the outcome is failed with exit code 1 and no output, and
\* the call has issued no create, start, kill or removal of a container and
\* has no removal of a container pending.
C11_EarlyFailure ==
    (HasOutcome /\ result.error \in EarlyErrors) =>
        /\ result.status = "failed"
        /\ result.exitCode = 1
        /\ result.output = ""
        /\ ~Has("create") /\ ~Has("createFailed") /\ ~Has("start")
        /\ ~Has("kill") /\ ~Has("removeContainer")
        /\ \A i \in 1..Len(defers) : defers[i] # "removeContainer"
        /\ containers[job.jobId].state = "none"

C11_Witness ==
    /\ pc = "markTerminal"
    /\ result.error = "failed to write code file"
    /\ Has("mkdir")
    /\ Has("removeAll")
    /\ containers[job.jobId].state = "none"

\* ------------------------------------------------------------------ C12
\* C12: the executor is entered only after the processing write succeeded;
\* a processJob call whose processing write failed returns having made no
\* scratch directory and no container, issued no write of an outcome and no
\* notification, and leaves the record queued, without startedAt.
C12_ProcessingWriteFailed ==
    /\ pc \in ExecSteps \cup {"validate", "unwind", "markTerminal", "notify"} =>
           Has("processing")
    /\ (ProcessJobReturned /\ ~Has("processing")) =>
           /\ trace = <<>>
           /\ result = NoResult
           /\ termWrite = "none"
           /\ records[job.jobId].status = "queued"
           /\ ~records[job.jobId].startedAt
           /\ dirs[job.jobId] = "absent"
           /\ containers[job.jobId].state = "none"
           /\ \A i \in 1..Len(published) : published[i] # job.jobId

C12_Witness ==
    /\ ProcessJobReturned
    /\ ~Has("processing")
    /\ ~ctxCancelled
    /\ records[job.jobId].status = "queued"

\* ------------------------------------------------------------------ C13
\* C13 as stated: a payload that is not valid JSON or that lacks the jobId
\* field is dropped; the call that received it goes back to the dequeue with
\* no record-store write issued, no scratch directory, no container and
\* nothing published.
C13_MalformedDropped ==
    (payload # NoPayload \/ pc = "parse") =>
        ((~payload.valid \/ payload.jobId \notin JobIds) =>
            /\ pc \in {"parse", "loop"}
            /\ trace = <<>>
            /\ dirs[payload.jobId] = "absent"
            /\ containers[payload.jobId].state = "none"
            /\ \A i \in 1..Len(published) : published[i] # payload.jobId)

\* ------------------------------------------------------------------ C14
\* C14 as stated, the part on containers: at most one container made by the
\* dispatcher exists at any time.
C14_AtMostOneContainer ==
    Cardinality({j \in JobKeys : containers[j].state # "none"}) <= 1

\* The jobs' payloads are on the queue in the order of their jobIds, behind
\* the job being processed; the only container whose removal has not been
\* invoked is that of the job being processed.
C14_State ==
    /\ \A i, k \in 1..Len(queue) :
           (i < k /\ queue[i].valid /\ queue[k].valid) =>
               queue[i].jobId < queue[k].jobId
    /\ job # NoJob =>
           \A i \in 1..Len(queue) : queue[i].valid => job.jobId < queue[i].jobId
    /\ \A j \in JobKeys :
           (containers[j].state # "none" /\ ~containers[j].removeFailed) =>
               \/ job.jobId = j /\ Has("create")
               \/ pc = "exited"
    /\ Cardinality({j \in JobKeys : /\ containers[j].state # "none"
                                     /\ ~containers[j].removeFailed}) <= 1

\* A dequeue takes the head of the queue and happens outside any processJob
\* call; a step of the dispatcher that changes the status of a job's record
\* is a step of the call processing that job, all jobs pushed before it have
\* left the queue and no job pushed after it has been touched.
C14_Step ==
    /\ (pc = "blpop" /\ pc' = "parse") =>
           /\ payload' = Head(queue)
           /\ queue' = Tail(queue)
           /\ job = NoJob
           /\ defers = <<>>
    /\ \A j \in JobIds :
           (records[j].status # "absent" /\ records'[j].status # records[j].status) =>
               /\ job.jobId = j
               /\ \A i \in 1..Len(queue) : queue[i].valid => j < queue[i].jobId
               /\ \A k \in JobIds : j < k => records[k].status \in {"absent", "queued"}

\* C14 (amended): the dispatcher processes one job at a time: it dequeues the
\* head of the queue only after processJob for the previous payload has
\* returned, so jobs have their status written in the order they were
\* dequeued, which is the order they were pushed, and at most one container
\* whose removal has not been invoked exists at any time; a container whose
\* removal failed can exist together with the container of a later job.
C14_OneJobAtATime == [](C14_State) /\ [][C14_Step]_vars

C14_Witness ==
    /\ ProcessJobReturned
    /\ job.jobId = 2
    /\ termWrite = "ok"
    /\ records[1].status \in TerminalStatuses
    /\ records[2].status \in TerminalStatuses
    /\ published = <<1, 2>>

\* ------------------------------------------------------------------ C15
\* The payload being processed is a second push of a job's payload.
Redelivered == payload.valid /\ payload.jobId \in JobIds /\ payload.copy = 2

\* C15 as stated: in the second delivery of a payload whose first delivery
\* was executed and had its outcome written, the container create fails on the
\* name rce-exec-<jobId>.
C15_SecondCreateFails ==
    (Redelivered /\ records[job.jobId].completedAt) => ~Has("create")

\* In the delivery of a job's payload a container named rce-exec-<jobId> that
\* is there at the create is one left by a failed removal in an earlier
\* delivery; a create that failed gives failed, exit code 1, no output; and a
\* call that has come to the write of the outcome has an outcome.
C15_State ==
    (job # NoJob /\ job.jobId \in JobIds) =>
        /\ (pc = "create" /\ containers[job.jobId].state # "none") =>
               (Redelivered /\ containers[job.jobId].removeFailed)
        /\ (Has("createFailed") /\ HasOutcome) =>
               /\ result.status = "failed"
               /\ result.exitCode = 1
               /\ result.output = ""
               /\ result.error = "failed to create container"
        /\ pc \in {"markTerminal", "notify"} => HasOutcome

\* The create succeeds only when the name is free, and fails when it is not.
C15_Step ==
    /\ (pc = "create" /\ pc' = "start") => containers[job.jobId].state = "none"
    /\ (pc = "create" /\ pc' = "unwind") => Has("createFailed")'

\* C15 (amended): when the same job payload is dequeued twice, the second
\* delivery is processed like the first and the dispatcher goes on; its
\* container create fails on the name rce-exec-<jobId>, giving a failed
\* outcome with exit code 1, only when the container of the first delivery is
\* still there because its removal failed; otherwise the job is executed a
\* second time and its record and notification are written again.
C15_Redelivery == [](C15_State) /\ [][C15_Step]_vars

C15_Witness ==
    /\ Redelivered
    /\ ProcessJobReturned
    /\ Has("create")
    /\ result.status = "completed"
    /\ termWrite = "ok"
    /\ published = <<job.jobId, job.jobId>>

\* ------------------------------------------------------------------ C16
\* C16 as stated, the part on records that are already terminal: the
\* dispatcher never changes the status of a job's record from completed,
\* failed or timeout to processing.
C16_NoProcessingOntoTerminal ==
    [][\A j \in JobIds :
          records[j].status \in TerminalStatuses =>
              records'[j].status # "processing"]_vars

\* ------------------------------------------------------------------ C17
\* C17 as stated: when the root context was cancelled during the wait on a
\* running container, the job in flight has gone through its cleanup before
\* the process exits: at the exit the only containers left are ones whose
\* removal was invoked and failed.
C17_CleanupBeforeExit ==
    (pc = "exited" /\ cancelAt = "wait") =>
        \A j \in JobIds :
            containers[j].state # "none" => containers[j].removeFailed

\* ------------------------------------------------------------------ C18
\* A call that wrote its outcome and published nothing leaves the record as
\* the write of the outcome made it.
C18_State ==
    (ProcessJobReturned /\ termWrite = "ok" /\ ~Has("notify")) =>
        /\ records[job.jobId].status = result.status
        /\ result.status \in TerminalStatuses =>
               /\ records[job.jobId].completedAt
               /\ records[job.jobId].output = result.output
               /\ records[job.jobId].exitCode = result.exitCode

\* The step of the publish writes no record and goes back to the top of the
\* loop, whether the publish succeeded or not.
C18_Step ==
    (pc = "notify" /\ pc' # pc) =>
        /\ records' = records
        /\ pc' \in {"loop", "exited"}
        /\ published' \in {published, Append(published, job.jobId)}

\* C18: when the publish of the notification fails, processJob returns: the
\* record written with the outcome is left as it is, no further write is
\* made, and the dispatcher goes to the next dequeue.
C18_NotifyFailureIgnored == [](C18_State) /\ [][C18_Step]_vars

C18_Witness ==
    /\ ProcessJobReturned
    /\ termWrite = "ok"
    /\ ~Has("notify")
    /\ ~ctxCancelled
    /\ published = <<>>
    /\ records[job.jobId].status = "completed"

C20_ExecutionTimeBound ==
    HasOutcome => result.executionTime <= DefaultTimeout + 2

\* ------------------------------------------------------------------ C21
\* C21: every container that exists was created with networking disabled,
\* user nobody, 128 MiB of memory and as much with swap, CPU quota 50000 per
\* period 100000, at most 50 processes, all capabilities dropped,
\* no-new-privileges, stdin not attached and the shared volume read-only at
\* /code; and the configuration built for a job is the same whatever its code.
C21_SecurityProfile ==
    /\ \A j \in JobKeys :
           containers[j].state # "none" =>
               LET c == containers[j].config IN
               /\ c.networkDisabled
               /\ c.user = "nobody"
               /\ c.memory = 134217728
               /\ c.memorySwap = c.memory
               /\ c.cpuQuota = 50000 /\ c.cpuPeriod = 100000
               /\ c.pidsLimit = 50
               /\ c.capDrop = {"ALL"}
               /\ "no-new-privileges" \in c.securityOpt
               /\ ~c.attachStdin
               /\ \E m \in c.mounts : m.target = "/code" /\ m.readOnly
               /\ \A m \in c.mounts : m.readOnly
               /\ c.name = <<"rce-exec-", j>>
    /\ (job # NoJob /\ Has("create") /\ containers[job.jobId].state # "none") =>
           \A code \in CodeSamples :
               containers[job.jobId].config =
                   ContainerConfig(job.language, code, job.jobId)

C21_Witness ==
    /\ pc = "wait"
    /\ job.language = "python"
    /\ containers[job.jobId].state = "running"
    /\ containers[job.jobId].config.image = "python:3.9-alpine"
    /\ containers[job.jobId].config.networkDisabled

\* ------------------------------------------------------------------ C23
\* C23: the record is written with status queued before the job is pushed:
\* every job payload waiting in the queue has a record under its jobId, still
\* queued; and a request whose language fails validation leaves no payload
\* in the queue.
C23_RecordBeforePush ==
    \A i \in 1..Len(queue) :
        queue[i].valid =>
            /\ queue[i].jobId \in JobIds
            /\ queue[i].jobId < nextJobId
            /\ records[queue[i].jobId].status = "queued"
            /\ queue[i].language \in SupportedLanguages

C23_Witness ==
    /\ Len(queue) = 2
    /\ queue[1].valid /\ queue[2].valid
    /\ queue[1].jobId # queue[2].jobId
    /\ records[queue[1].jobId].status = "queued"
    /\ records[queue[2].jobId].status = "queued"

\* ------------------------------------------------------------------ C22
\* C22: the languages the gateway accepts are registered in the worker, so
\* no job accepted by POST /submit ends with the error
\* "unsupported language: ...".
C22_AcceptedLanguageRegistered ==
    \A j \in JobIds :
        \A lang \in SupportedLanguages :
            records[j].error # "unsupported language: " \o lang

\* ------------------------------------------------------------------ C24
\* C24: once the worker has written the outcome of a job into its record,
\* the body of GET /status/:jobId for that job carries the output the worker
\* wrote.
C24_StatusShowsOutput ==
    \A j \in JobIds :
        (records[j].status = "completed" /\ records[j].output # Unset) =>
            /\ "output" \in DOMAIN StatusResponse(j)
            /\ StatusResponse(j).output = records[j].output

\* ------------------------------------------------------------------ C25
\* C25: on the timeout path the kill comes before the removal of the
\* container, the canned message is the output, and the logs of the container
\* are retrieved (and discarded) before the container is removed.
C25_TimeoutDrainsLogs ==
    (HasOutcome /\ result.status = "timeout" /\ execCtxErr = "deadline"
        /\ Has("removeContainer")) =>
        /\ Before("kill", "removeContainer")
        /\ result.output = TimeoutOutput
        /\ Before("logs", "removeContainer")

\* ------------------------------------------------------------------ C26
\* The step in which the wait returns an error: with the deadline of the
\* execution context passed, the container is killed and the call returns
\* timeout with exit code 124; otherwise the locals become failed with exit
\* code 1 and nothing is killed.
C26_Step ==
    (pc = "wait" /\ ~Has("waitError") /\ trace' # trace
        /\ \E i \in 1..Len(trace') : trace'[i] = "waitError") =>
        IF execCtxErr = "deadline"
        THEN /\ trace' = trace \o <<"waitError", "kill">>
             /\ pc' = "unwind"
             /\ result'.status = "timeout"
             /\ result'.exitCode = TimeoutExitCode
        ELSE /\ trace' = Append(trace, "waitError")
             /\ pc' = "logs"
             /\ execStatus' = "failed"
             /\ exitCode' = 1
             /\ execError' = "container wait error"

\* The outcome of a call whose wait returned an error.
C26_State ==
    (Has("waitError") /\ HasOutcome) =>
        IF Has("kill")
        THEN /\ result.status = "timeout"
             /\ result.exitCode = TimeoutExitCode
        ELSE /\ result.status = "failed"
             /\ result.exitCode = 1
             /\ result.error = "container wait error"

\* C26: a wait that returns an error after the deadline of the execution
\* context has passed gives timeout, exit code 124, with the kill issued, and
\* not failed; a wait that returns an error while the deadline has not passed
\* gives failed with exit code 1.
C26_WaitErrorClassified == [](C26_State) /\ [][C26_Step]_vars

C26_Witness ==
    /\ HasOutcome
    /\ Before("waitError", "kill")
    /\ execCtxErr = "deadline"
    /\ result.status = "timeout"
    /\ result.exitCode = TimeoutExitCode

\* ------------------------------------------------------------------ C27
\* The step that retrieves the logs and returns: status and exit code are
\* those the wait step left, an error the wait step set is kept, and a failed
\* retrieval (no output) with no error set before fills the error.
C27_Step ==
    (pc = "logs" /\ pc' = "unwind") =>
        /\ result'.status = execStatus
        /\ result'.exitCode = exitCode
        /\ execError # "" => result'.error = execError
        /\ (execError = "" /\ result'.output = "") =>
               result'.error = "failed to retrieve output"
        /\ (execError = "" /\ result'.output # "") => result'.error = ""

\* A completed outcome has exit code 0, and without output it has the error
\* of the failed retrieval.
C27_State ==
    (HasOutcome /\ result.status = "completed") =>
        /\ result.exitCode = 0
        /\ Has("logs")
        /\ result.output = "" => result.error = "failed to retrieve output"

\* C27: when the container ended with exit code 0 and the retrieval of the
\* logs fails, the outcome is completed with exit code 0, empty output and
\* an error; a failed retrieval changes neither status nor exit code and
\* leaves an error set by the wait step in place.
C27_LogFailureKeepsStatus == [](C27_State) /\ [][C27_Step]_vars

C27_Witness ==
    /\ HasOutcome
    /\ Has("logs")
    /\ containers[job.jobId].exitCode = 0
    /\ result.status = "completed"
    /\ result.exitCode = 0
    /\ result.output = ""
    /\ result.error = "failed to retrieve output"

\* A failed retrieval after a wait error: the wait error is the one kept.
C27_WaitErrorKept ==
    /\ HasOutcome
    /\ Has("logs")
    /\ result.output = ""
    /\ result.status = "failed"
    /\ result.error = "container wait error"

\* ------------------------------------------------------------------ C28
\* C28: an output that was retrieved, by demultiplexing or by the fallback
\* read, is stdout followed by stderr, with one newline between them exactly
\* when both are non-empty and stdout does not end in a newline, trailing
\* whitespace removed; it never ends in a space, tab, carriage return or
\* newline.
C28_OutputFormat ==
    logs.path \in {"demux", "fallback"} =>
        LET so == Demux(logs.stream, "stdout")
            se == Demux(logs.stream, "stderr")
            sep == IF se # <<>> /\ so # <<>> /\ so[Len(so)] # "\n"
                   THEN <<"\n">> ELSE <<>>
        IN /\ logs.output = TrimRight(so \o sep \o se, Whitespace)
           /\ logs.output # <<>> => logs.output[Len(logs.output)] \notin Whitespace

\* ------------------------------------------------------------------ C29
\* C29: an outcome that is failed with an error, of a call that created a
\* container, has the exit code that container reported.  Read at the return
\* of ExecuteCode, while the container is still there, and for a container
\* that has exited.
C29_ExitCodeReflected ==
    (pc = "unwind" /\ HasOutcome /\ Has("create")
        /\ result.status = "failed" /\ result.error # ""
        /\ containers[job.jobId].state = "exited") =>
        result.exitCode = containers[job.jobId].exitCode

\* ------------------------------------------------------------------ C30
\* C30: when the outcome of a job is written to its record, the scratch
\* directory of the job is gone, whichever return ExecuteCode took, unless
\* its removal failed, and then the failure was logged; a directory that was
\* made had its removal called before the write.
C30_ScratchGoneAtTerminal ==
    (job # NoJob /\ (pc = "markTerminal" \/ Has("terminal"))) =>
        /\ dirs[job.jobId] # "absent" => Has("removeAllFailed")
        /\ Has("mkdir") => Has("removeAll")
        /\ defers = <<>>

C30_Witness ==
    /\ job # NoJob
    /\ Has("terminal")
    /\ Has("mkdir")
    /\ ~Has("create")
    /\ result.error = "failed to write code file"
    /\ dirs[job.jobId] = "absent"
    /\ records[job.jobId].status = "failed"

\* The removal of the directory failed: the directory is there at the write
\* of the outcome, and the failure is in the log.
C30_RemovalFailed ==
    /\ job # NoJob
    /\ Has("terminal")
    /\ Has("removeAllFailed")
    /\ dirs[job.jobId] # "absent"

\* ------------------------------------------------------------------ C31
\* C31: whatever the jobId of the parsed payload, the empty string included,
\* the directory the executor makes and later removes is a proper
\* subdirectory of the scratch root, named by the jobId.
C31_ScratchUnderRoot ==
    (job # NoJob /\ (Has("mkdir") \/ Has("removeAll"))) =>
        /\ ExecDir(job.jobId) # ExecutionVolume
        /\ ExecDir(job.jobId) = Append(ExecutionVolume, job.jobId)

\* ------------------------------------------------------------------ C32
\* A process is in an execution that has made its scratch directory and not
\* yet removed it.
HoldsScratch(w) ==
    \E i \in 1..Len(dispatchers[w].defers) : dispatchers[w].defers[i] = "removeAll"

\* C32: with two dispatcher processes, two containers that exist at the
\* same time have different scratch directories, and no scratch directory is
\* in use by two executions at a time, also when both processes were handed
\* the same jobId.
C32_ScratchNotShared ==
    /\ \A j1 \in JobKeys, j2 \in JobKeys :
           (j1 # j2 /\ ~NameFree(j1) /\ ~NameFree(j2)) =>
               containers[j1].config.cmd[2] # containers[j2].config.cmd[2]
    /\ \A w1 \in Dispatchers, w2 \in Dispatchers :
           (w1 # w2 /\ HoldsScratch(w1) /\ HoldsScratch(w2)) =>
               ExecDir(dispatchers[w1].jobId) # ExecDir(dispatchers[w2].jobId)

\* ------------------------------------------------------------------ C33
\* C33: of two overlapping executions of one jobId, the one whose container
\* create fails on the name in use has not written the code file, and does
\* not remove the scratch directory, while the container of the other
\* exists.
C33_LoserLeavesScratch ==
    \A w \in Dispatchers :
        dispatchers[w].createFailed =>
            /\ ~dispatchers[w].wroteUnder
            /\ ~dispatchers[w].removedUnder

\* ------------------------------------------------------------------ C34
\* C34: after an error of BLPOP, unless the root context is cancelled, the
\* loop comes to another BLPOP; and a payload that is on the queue while the
\* loop sleeps after the error, or waits in a BLPOP, is handed to processJob.
C34_DequeueErrorTransient ==
    /\ (pc = "sleep") ~> (pc = "blpop" \/ ctxCancelled)
    /\ (pc \in {"sleep", "blpop"} /\ queue # <<>>) ~> (pc = "parse" \/ ctxCancelled)

C34_Witness ==
    /\ pc = "sleep"
    /\ ~ctxCancelled
    /\ faults = 1
    /\ queue # <<>>
    /\ records[1].status = "queued"

\* ------------------------------------------------------------------ C35
\* C35: after the write of an execution's outcome succeeded, the record's
\* status, output and exit code are that outcome's, and the record has an
\* error only if that outcome has one, also when an earlier execution of
\* the jobId left an error in the record.
C35_RecordDescribesExecution ==
    (ProcessJobReturned /\ termWrite = "ok" /\ job.jobId \in JobIds
        /\ result.status \in TerminalStatuses
        /\ records[job.jobId].status # "absent") =>
        /\ records[job.jobId].status = result.status
        /\ records[job.jobId].output = result.output
        /\ records[job.jobId].exitCode = result.exitCode
        /\ records[job.jobId].error \notin {Unset, ""} => result.error # ""

\* ------------------------------------------------------------------ C36
\* Steps taken while the root context is cancelled: nothing is dequeued, the
\* loop does not go to BLPOP, a BLPOP in progress returns nothing, a
\* payload already popped is dropped at the processing write, and an
\* ExecuteCode entered just before the cancellation returns before it makes a
\* directory.
C36_Step ==
    ctxCancelled =>
        /\ Len(queue') >= Len(queue)
        /\ pc \in {"loop", "sleep"} => pc' \in {pc, "stopped", "exited"}
        /\ pc = "blpop" => pc' \in {"blpop", "stopped", "exited"}
        /\ pc = "stopped" => pc' \in {"stopped", "exited"}
        /\ pc = "parse" => pc' \in {"parse", "markProcessing", "loop", "exited"}
        /\ pc = "markProcessing" => pc' \in {"markProcessing", "loop", "exited"}
        /\ pc \in {"validate", "ensureImage"} =>
               /\ pc' \in {pc, "ensureImage", "unwind", "exited"}
               /\ dirs' = dirs
               /\ \A j \in JobKeys :
                      NameFree(j) => containers'[j].state = "none"

\* A call that had not written the processing status when the root context
\* was cancelled has made no directory and no container.
C36_State ==
    /\ pc = "stopped" => ctxCancelled
    /\ (ctxCancelled /\ job # NoJob /\ ~Has("processing")) =>
           /\ ~Has("mkdir")
           /\ ~Has("create")

\* C36: once the root context is cancelled no new execution starts: a
\* payload popped when the cancellation comes leads to no scratch directory
\* and no container, and workerLoop returns without another dequeue.
C36_NoNewExecution == [](C36_State) /\ [][C36_Step]_vars

C36_Witness ==
    /\ ctxCancelled
    /\ ProcessJobReturned
    /\ ~Has("processing")
    /\ queue # <<>>
    /\ records[job.jobId].status = "queued"
    /\ dirs[job.jobId] = "absent"

\* ------------------------------------------------------------------ C37
\* C37: once the cleanup function of a poller has been called, neither
\* onUpdate nor onError is invoked for that poller, also when a status
\* request was in flight at the call.
C37_NoCallbackAfterCleanup ==
    \A r \in JobIds : ~ui.pollers[r].late

\* ------------------------------------------------------------------ C38
\* The requests a poller has sent are its attempts; onError calls are
\* counted in errors.
C38_State ==
    \A r \in JobIds :
        /\ ui.pollers[r].attempts <= MaxAttempts
        /\ ui.pollers[r].errors <= 1
        /\ ui.pollers[r].errors = 1 => ui.pollers[r].pc = "done"

\* A poller goes on after a response only if the status in it was not
\* terminal and attempts are left; a poller that has ended sends no request
\* and calls onError no more.
C38_Step ==
    \A r \in JobIds :
        /\ ui.pollers[r].pc = "inflight" /\ ui'.pollers[r].pc = "waiting"
              => /\ ~IsTerminal(records[r].status)
                 /\ ui.pollers[r].attempts < MaxAttempts
                 /\ ui'.pollers[r].errors = 0
        /\ ui.pollers[r].pc = "done"
              => /\ ui'.pollers[r].pc = "done"
                 /\ ui'.pollers[r].attempts = ui.pollers[r].attempts
                 /\ ui'.pollers[r].errors = ui.pollers[r].errors

\* C38: pollJobStatus terminates: at most maxAttempts status requests, no
\* request after a response with a terminal status or after a request
\* error, onError at most once, and every poller that was started ends.
C38_PollerTerminates ==
    /\ [](C38_State)
    /\ [][C38_Step]_vars
    /\ \A r \in JobIds :
          (ui.pollers[r].pc = "inflight") ~> (ui.pollers[r].pc = "done")

\* A poller used all its attempts without a terminal status and called
\* onError once.
C38_Witness ==
    \E r \in JobIds :
        /\ ui.pollers[r].pc = "done"
        /\ ui.pollers[r].attempts = MaxAttempts
        /\ ui.pollers[r].errors = 1
        /\ ~IsTerminal(records[r].status)
        /\ ~ui.pollers[r].stopped

\* ------------------------------------------------------------------ C39
\* C39: when the analysis report of the displayed job, whose execution has
\* ended, is stored, the Workspace eventually holds the report and is out of
\* the analyzing state, as long as the status requests are answered, the
\* Workspace stays mounted and no new run is started.
C39_ReportReachesWorkspace ==
    \A j \in JobIds :
        (/\ records[j].status \in TerminalStatuses
         /\ records[j].analysisReport # Unset
         /\ ui.display.job = j
         /\ ui.pollers[j].errors = 0)
        ~> (\/ /\ ui.display.analysisReport # "null"
               /\ ~ui.display.isAnalyzing
            \/ ui.pollers[j].errors > 0
            \/ ui.display.job # j
            \/ ~ui.mounted)

====
